---- MODULE Spec2Model ----
(***************************************************************************)
(* Model of the subscription conversion pipeline:                          *)
(*   - downloadSubscription (server.js): live request with cache fallback  *)
(*   - /convert handlers and processSubscription (server.js)               *)
(*   - executeScript / validateConfig (lib/script, in lib/batch.js)        *)
(*   - batchProcess / batchProcessParallel (lib/batch.js)                  *)
(* Each subsystem has its own specification over the shared variables.     *)
(***************************************************************************)
EXTENDS Integers, Sequences, FiniteSets, TLC

\* ------------------------------------------------------------------------
\* Bounds
\* ------------------------------------------------------------------------
MaxCalls == 2
MaxExec == 2
MaxFiles == 3
MaxGroups == 4
MaxReq == 2

\* ------------------------------------------------------------------------
\* Variables
\* ------------------------------------------------------------------------
VARIABLES
    cacheBody,   \* cache key -> text of <key>.cache, or ABSENT
    cacheHdr,    \* cache key -> text of <key>.headers.json, or ABSENT
    dlCall,      \* the last downloadSubscription call: inputs, environment, outcome
    dlCount,     \* number of downloadSubscription calls made
    vCfg,        \* validateConfig: the value under validation and its top-level keys
    vRes,        \* validateConfig: outcome of the call, with the isResult flag it got
    heap,        \* executeScript: the objects and arrays manifests are made of
    ex,          \* executeScript: position and locals of the running invocation
    timers,      \* executeScript: per invocation, the state of its setTimeout timer
    hasTimedOut, \* executeScript: per invocation, the flag its timer callback sets
    exCount,     \* executeScript: number of invocations started
    bt,          \* batch run: options, position and locals of batchProcess(Parallel)
    outFiles,    \* batch run: output path -> what was written there
    runLog,      \* batch run: per pipeline run, the file and the stage it failed at
    req,         \* /convert: per request, position and locals of its handler
    tempFiles,   \* /convert: temporary path -> the artifact stored there
    clock        \* /convert: the last reading of Date.now(), 0 before the first

dlVars == <<cacheBody, cacheHdr, dlCall, dlCount>>

vVars == <<vCfg, vRes>>

exVars == <<heap, ex, timers, hasTimedOut, exCount>>

btVars == <<bt, outFiles, runLog>>

cvVars == <<req, tempFiles, clock>>

vars == <<cacheBody, cacheHdr, dlCall, dlCount, vCfg, vRes, heap, ex, timers, hasTimedOut,
          exCount, bt, outFiles, runLog, req, tempFiles, clock>>

\* ------------------------------------------------------------------------
\* downloadSubscription (server.js 147-208)
\* ------------------------------------------------------------------------
ABSENT == "ABSENT"

Urls == {"u1", "u2"}

\* md5(url) hex digest: one key per URL
CacheKey(url) == IF url = "u1" THEN "k1" ELSE "k2"

Keys == {CacheKey(u) : u \in Urls}

\* response.data as axios hands it over: a string, or an object when the body
\* was JSON
StrContent(text) == [t |-> "str", v |-> text]
ObjContent(o) == [t |-> "obj", v |-> o]

\* Texts a response body can be: block YAML (a mapping), flow YAML (starts with
\* '{' and is not JSON); JSON bodies arrive parsed
PlainTexts == {"yamlA"}
FlowTexts == {"{flowYaml}"}
JsonObjects == {"objA"}

\* JSON.stringify of a parsed body
JSONStringify(o) == "{json:objA}"

\* text written to <key>.cache (line 169)
CacheText(content) == IF content.t = "str" THEN content.v ELSE JSONStringify(content.v)

\* a file left empty by a write that failed after truncating it
EMPTYTEXT == ""

\* cachedContent.trim().startsWith('{')
StartsWithBrace(text) == text \in FlowTexts \cup {JSONStringify(o) : o \in JsonObjects}

\* JSON.parse succeeds on the text
IsJson(text) == text \in {JSONStringify(o) : o \in JsonObjects}

JSONParse(text) == CHOOSE o \in JsonObjects : JSONStringify(o) = text

\* response headers and their JSON text in <key>.headers.json
Headers == {"hA", "hB"}
EMPTYHDR == "{}"
HeaderText(h) == IF h = "hA" THEN "json(hA)" ELSE "json(hB)"
\* lines 187-193: JSON.parse of the headers file, {} when it fails
HeaderParse(text) ==
    IF \E h \in Headers : HeaderText(h) = text
    THEN CHOOSE h \in Headers : HeaderText(h) = text
    ELSE EMPTYHDR

\* outcome of the single axios.get: failure (network error, timeout, status >= 400)
\* or a response with status < 400
\* (cause: the message of the error axios rejects with)
LiveFail ==
    [ok |-> FALSE, content |-> StrContent(EMPTYTEXT), headers |-> EMPTYHDR,
     cause |-> "ECONNREFUSED"]
LiveOk(c, h) == [ok |-> TRUE, content |-> c, headers |-> h, cause |-> ""]
LiveOutcomes ==
    {LiveFail}
    \cup {LiveOk(StrContent(x), "hA") : x \in PlainTexts \cup FlowTexts}
    \cup {LiveOk(ObjContent(o), "hA") : o \in JsonObjects}
    \cup {LiveOk(StrContent("yamlA"), "hB")}

\* outcome of one fs.writeFileSync: done, or thrown leaving the file as it was,
\* or thrown leaving it truncated
WriteOutcomes == {"ok", "failUnchanged", "failTruncated"}

\* a write that removes the file when it fails
WriteFileUnlinkOnFail(old, new, w) == IF w = "ok" THEN new ELSE ABSENT

WriteFile(old, new, w) ==
    CASE w = "ok" -> new
      [] w = "failUnchanged" -> old
      [] OTHER -> EMPTYTEXT

\* try block, lines 153-176: request, then the two cache writes
TryBlock(key, live, w1, w2, cb, ch) ==
    IF ~live.ok
    THEN [threw |-> TRUE, cb |-> cb, ch |-> ch]
    ELSE LET cb1 == [cb EXCEPT ![key] = WriteFile(cb[key], CacheText(live.content), w1)]
         IN  IF w1 # "ok"
             THEN [threw |-> TRUE, cb |-> cb1, ch |-> ch]
             ELSE LET ch1 == [ch EXCEPT ![key] = WriteFile(ch[key], HeaderText(live.headers), w2)]
                  IN  [threw |-> w2 # "ok", cb |-> cb1, ch |-> ch1]

\* line 181: useCache && fs.existsSync(cachePath); existsSync is evaluated only
\* when useCache is true
UseCacheGuard(useCache, exists) == useCache /\ exists

\* catch block, lines 177-207
CatchBlock(useCache, key, cb, ch) ==
    LET exists == cb[key] # ABSENT
        consulted == useCache \/ UseCacheGuard(useCache, exists)
    IN  IF UseCacheGuard(useCache, exists)
        THEN LET text == cb[key]
                 hdr == IF ch[key] # ABSENT THEN HeaderParse(ch[key]) ELSE EMPTYHDR
             IN  IF StartsWithBrace(text)
                 THEN IF IsJson(text)
                      THEN [kind |-> "cached", content |-> ObjContent(JSONParse(text)),
                            headers |-> hdr, err |-> "", consulted |-> TRUE]
                      ELSE [kind |-> "error", content |-> StrContent(EMPTYTEXT),
                            headers |-> EMPTYHDR, err |-> "cacheInvalid", consulted |-> TRUE]
                 ELSE [kind |-> "cached", content |-> StrContent(text),
                       headers |-> hdr, err |-> "", consulted |-> TRUE]
        ELSE [kind |-> "error", content |-> StrContent(EMPTYTEXT), headers |-> EMPTYHDR,
              err |-> "noCache", consulted |-> consulted]

\* lines 202 and 205: the Error thrown to the caller; its message is a fixed
\* text followed by the url, and the caught error is only logged (line 178)
DownloadError(text, url) == [text |-> text, url |-> url, cause |-> ""]

NoDownloadError == [text |-> "", url |-> "", cause |-> ""]

\* downloadSubscription(url, useCache) under the environment (live, w1, w2)
downloadSubscription(url, useCache, live, w1, w2, cb, ch) ==
    LET key == CacheKey(url)
        t == TryBlock(key, live, w1, w2, cb, ch)
        c == CatchBlock(useCache, key, t.cb, t.ch)
    IN  IF ~t.threw
        THEN [ret |-> [kind |-> "live", content |-> live.content, headers |-> live.headers,
                       err |-> "", consulted |-> FALSE],
              error |-> NoDownloadError,
              cb |-> t.cb, ch |-> t.ch, threw |-> FALSE]
        ELSE [ret |-> c,
              error |-> IF c.kind = "error" THEN DownloadError(c.err, url) ELSE NoDownloadError,
              cb |-> t.cb, ch |-> t.ch, threw |-> TRUE]

\* (before: the cache body file of the url's key when the call began)
NoCall ==
    [url |-> "u1", useCache |-> FALSE, live |-> LiveFail, threw |-> FALSE, existed |-> FALSE,
     before |-> ABSENT, error |-> NoDownloadError,
     ret |-> [kind |-> "none", content |-> StrContent(EMPTYTEXT), headers |-> EMPTYHDR,
              err |-> "", consulted |-> FALSE]]

\* one call of downloadSubscription
DownloadSubscription ==
    /\ dlCount < MaxCalls
    /\ \E url \in Urls, useCache \in BOOLEAN, live \in LiveOutcomes,
          w1 \in WriteOutcomes, w2 \in WriteOutcomes :
          \* the write outcomes only matter for writes that are attempted
          /\ (~live.ok => w1 = "ok" /\ w2 = "ok")
          /\ (w1 # "ok" => w2 = "ok")
          /\ LET r == downloadSubscription(url, useCache, live, w1, w2, cacheBody, cacheHdr)
             IN  /\ cacheBody' = r.cb
                 /\ cacheHdr' = r.ch
                 /\ dlCall' = [url |-> url, useCache |-> useCache, live |-> live,
                               threw |-> r.threw,
                               existed |-> r.cb[CacheKey(url)] # ABSENT,
                               before |-> cacheBody[CacheKey(url)],
                               error |-> r.error,
                               ret |-> r.ret]
    /\ dlCount' = dlCount + 1
    /\ UNCHANGED <<vVars, exVars, btVars, cvVars>>

\* ------------------------------------------------------------------------
\* JavaScript values of a manifest
\* ------------------------------------------------------------------------
\* ty: undefined, null, boolean, number, string, array, object.
\* A number is n, or n + 1/2 when frac, or NaN when nan.  ref is the heap
\* address of an array or object that lives in the heap, 0 for a literal.
JSVal(ty, b, n, frac, nan, s, ref) ==
    [ty |-> ty, b |-> b, n |-> n, frac |-> frac, nan |-> nan, s |-> s, ref |-> ref]

Undef == JSVal("undefined", FALSE, 0, FALSE, FALSE, "", 0)
Null == JSVal("null", FALSE, 0, FALSE, FALSE, "", 0)
Bool(b) == JSVal("boolean", b, 0, FALSE, FALSE, "", 0)
Num(n) == JSVal("number", FALSE, n, FALSE, FALSE, "", 0)
Half(n) == JSVal("number", FALSE, n, TRUE, FALSE, "", 0)
NaN == JSVal("number", FALSE, 0, FALSE, TRUE, "", 0)
Str(s) == JSVal("string", FALSE, 0, FALSE, FALSE, s, 0)
Arr(ref) == JSVal("array", FALSE, 0, FALSE, FALSE, "", ref)
Obj(ref) == JSVal("object", FALSE, 0, FALSE, FALSE, "", ref)

\* typeof v
TypeOf(v) == IF v.ty \in {"null", "array", "object"} THEN "object" ELSE v.ty

\* Array.isArray(v)
IsArray(v) == v.ty = "array"

\* !!v
Truthy(v) ==
    CASE v.ty \in {"undefined", "null"} -> FALSE
      [] v.ty = "boolean" -> v.b
      [] v.ty = "number" -> ~v.nan /\ (v.n # 0 \/ v.frac)
      [] v.ty = "string" -> v.s # ""
      [] OTHER -> TRUE

\* v < 0 and v > k for a number v (both false for NaN)
NumLess0(v) == ~v.nan /\ v.n < 0
NumGreater(v, k) == ~v.nan /\ (v.n > k \/ (v.n = k /\ v.frac))

\* the recognised top-level keys of a manifest; socksPort, mixedPort and
\* proxyGroups stand for 'socks-port', 'mixed-port' and 'proxy-groups'
Fields(rules, proxies, proxyGroups, port, socksPort, mixedPort, mode) ==
    [rules |-> rules, proxies |-> proxies, proxyGroups |-> proxyGroups, port |-> port,
     socksPort |-> socksPort, mixedPort |-> mixedPort, mode |-> mode]

NoFields == Fields(Undef, Undef, Undef, Undef, Undef, Undef, Undef)

FieldNames == {"rules", "proxies", "proxyGroups", "port", "socksPort", "mixedPort", "mode"}

\* ------------------------------------------------------------------------
\* validateConfig (lib/batch.js 362-400)
\* ------------------------------------------------------------------------
MAXPORT == 65535

Modes == {"rule", "global", "direct"}

\* lines 387-390
PortRejected(v) ==
    v.ty # "undefined" /\ (TypeOf(v) # "number" \/ NumLess0(v) \/ NumGreater(v, MAXPORT))

\* lines 370, 375, 380: config.x && !Array.isArray(config.x)
SeqRejected(v) == Truthy(v) /\ ~IsArray(v)

\* line 396: config.mode && !['rule', 'global', 'direct'].includes(config.mode)
ModeRejected(v) == Truthy(v) /\ ~(v.ty = "string" /\ v.s \in Modes)

\* validateConfig(config, isResult): ok, or the error that is thrown; c is the
\* value and f its top-level keys (all undefined for a value without them)
validateConfig(c, f, isResult) ==
    IF ~Truthy(c) \/ TypeOf(c) # "object"
    THEN [ok |-> FALSE, err |-> "shape"]
    ELSE IF ~isResult THEN [ok |-> TRUE, err |-> ""]
    ELSE IF SeqRejected(f.rules) THEN [ok |-> FALSE, err |-> "rules"]
    ELSE IF SeqRejected(f.proxies) THEN [ok |-> FALSE, err |-> "proxies"]
    ELSE IF SeqRejected(f.proxyGroups) THEN [ok |-> FALSE, err |-> "proxy-groups"]
    ELSE IF PortRejected(f.port) THEN [ok |-> FALSE, err |-> "port"]
    ELSE IF PortRejected(f.socksPort) THEN [ok |-> FALSE, err |-> "socks-port"]
    ELSE IF PortRejected(f.mixedPort) THEN [ok |-> FALSE, err |-> "mixed-port"]
    ELSE IF ModeRejected(f.mode) THEN [ok |-> FALSE, err |-> "mode"]
    ELSE [ok |-> TRUE, err |-> ""]

\* values handed to validateConfig: mappings in which at most two recognised
\* keys are set, and values that are no mapping
ValidateInputs ==
    LET SeqVals == {Undef, Null, Bool(FALSE), Num(0), Num(1), Str(""), Str("x"), Arr(0), Obj(0)}
        PortVals ==
            {Undef, Null, Str("80"), Num(-1), Num(0), Num(80), Half(80), NaN, Num(MAXPORT),
             Half(MAXPORT), Num(MAXPORT + 1), Num(70000)}
        ModeVals ==
            {Undef, Null, Bool(FALSE), Num(0), Num(1), Str(""), Str("rule"), Str("global"),
             Str("direct"), Str("bogus")}
        ValsOf(name) ==
            IF name \in {"rules", "proxies", "proxyGroups"} THEN SeqVals
            ELSE IF name = "mode" THEN ModeVals ELSE PortVals
        Manifests ==
            {[NoFields EXCEPT ![q[1]] = q[2], ![q[3]] = q[4]] :
                q \in {q \in FieldNames \X (SeqVals \cup PortVals \cup ModeVals)
                             \X FieldNames \X (SeqVals \cup PortVals \cup ModeVals) :
                           q[2] \in ValsOf(q[1]) /\ q[4] \in ValsOf(q[3])}}
    IN  {[c |-> Obj(0), f |-> m] : m \in Manifests}
        \cup {[c |-> v, f |-> NoFields] :
                 v \in {Undef, Null, Num(1), Str("x"), Bool(TRUE), Arr(0)}}

NotValidated == [ran |-> FALSE, isResult |-> FALSE, ok |-> FALSE, err |-> ""]

\* one call validateConfig(config, isResult)
ValidateConfig ==
    /\ ~vRes.ran
    /\ \E isResult \in BOOLEAN :
          LET r == validateConfig(vCfg.c, vCfg.f, isResult)
          IN  vRes' = [ran |-> TRUE, isResult |-> isResult, ok |-> r.ok, err |-> r.err]
    /\ UNCHANGED <<vCfg, dlVars, exVars, btVars, cvVars>>

\* ------------------------------------------------------------------------
\* Routines (the script text handed to executeScript)
\* ------------------------------------------------------------------------
\* hasMainText: script.includes('function main')
\* syntaxOk:    new Function(...) accepts the wrapped text
\* mainDefined: typeof main === 'function' once the script body has run
\* mutate:      what main does in place to the object it receives
\* throws:      what main throws after mutating, if anything
\* ret:         what main returns: its argument, a fresh mapping, or another value
Routine(hasMainText, syntaxOk, mainDefined, mutate, throws, retKind, retV, retF) ==
    [hasMainText |-> hasMainText, syntaxOk |-> syntaxOk, mainDefined |-> mainDefined,
     mutate |-> mutate, throws |-> throws,
     ret |-> [kind |-> retKind, v |-> retV, f |-> retF]]

Returning(mutate, retKind, retV, retF) ==
    Routine(TRUE, TRUE, TRUE, mutate, "none", retKind, retV, retF)

Throwing(mutate, throws) == Routine(TRUE, TRUE, TRUE, mutate, throws, "arg", Undef, NoFields)

\* the routines: main returns its argument after a change in place, or a
\* mapping it builds, or a value that is no mapping; main throws; the text has
\* no main declaration; the text does not compile; main is not defined
Routines ==
    LET Mutations == {"none", "setMode", "setPort", "unshiftRule"}
        FreshResults ==
            {NoFields,
             [NoFields EXCEPT !.port = Num(70000)],
             [NoFields EXCEPT !.port = Half(80)],
             [NoFields EXCEPT !.rules = Str("x")],
             [NoFields EXCEPT !.mode = Str("bogus")],
             [NoFields EXCEPT !.mode = Str("global"), !.rules = Arr(0)]}
        NonMappingResults ==
            {Undef, Null, Num(0), Num(5), Str(""), Str("x"), Bool(FALSE), Bool(TRUE), Arr(0)}
        ThrowKinds ==
            {"ReferenceError", "TypeError", "SyntaxError", "bothPatterns", "Error", "nonError"}
    IN  {Returning(m, "arg", Undef, NoFields) : m \in Mutations}
        \cup {Returning("none", "fresh", Obj(0), f) : f \in FreshResults}
        \cup {Returning("unshiftRule", "fresh", Obj(0), NoFields)}
        \cup {Returning("none", "value", v, NoFields) : v \in NonMappingResults}
        \cup {Throwing("none", t) : t \in ThrowKinds}
        \cup {Throwing("unshiftRule", "Error")}
        \cup {Routine(FALSE, ok, FALSE, "none", "none", "arg", Undef, NoFields) : ok \in BOOLEAN}
        \cup {Routine(FALSE, TRUE, TRUE, "setMode", "none", "arg", Undef, NoFields)}
        \cup {Routine(TRUE, FALSE, FALSE, "none", "none", "arg", Undef, NoFields)}
        \cup {Routine(TRUE, TRUE, FALSE, "none", "none", "arg", Undef, NoFields)}

\* routines whose main is slow
TimedRoutines ==
    {Returning("none", "arg", Undef, NoFields), Returning("none", "value", Null, NoFields),
     Returning("none", "fresh", Obj(0), [NoFields EXCEPT !.port = Num(70000)])}

\* errors: the constructor name, what raised it, and whether the message
\* contains 'is not defined' / 'is not a function'
\* (tag: what raised it; detail: the key a validation error names)
RawError(name, tag, notDefined, notFunction) ==
    [name |-> name, tag |-> tag, detail |-> "", notDefined |-> notDefined,
     notFunction |-> notFunction]

NoError == RawError("", "", FALSE, FALSE)

InternalError(tag) == RawError("Error", tag, FALSE, FALSE)

\* what a throwing routine raises
ThrownBy(t) ==
    CASE t = "ReferenceError" -> RawError("ReferenceError", "script", TRUE, FALSE)
      [] t = "TypeError" -> RawError("TypeError", "script", FALSE, TRUE)
      [] t = "SyntaxError" -> RawError("SyntaxError", "script", FALSE, FALSE)
      [] t = "bothPatterns" -> RawError("Error", "script", TRUE, TRUE)
      [] t = "nonError" -> RawError("nonError", "script", FALSE, FALSE)
      [] OTHER -> RawError("Error", "script", FALSE, FALSE)

\* ------------------------------------------------------------------------
\* executeScript (lib/batch.js 255-355)
\* ------------------------------------------------------------------------
timeoutMs == 10000

\* the threshold checkTimeout compares with (line 301: timeoutMs - 1000)
CheckTimeoutMs == timeoutMs - 1000

\* elapsed times of main, in ms
Elapsed == {0, CheckTimeoutMs, CheckTimeoutMs + 1, timeoutMs, timeoutMs + 1}

\* JSON.parse(JSON.stringify(v)) for the value of a key: NaN becomes null
JSONCopyVal(v) == IF v.ty = "number" /\ v.nan THEN Null ELSE v

JSONCopyFields(f) == [k \in FieldNames |-> JSONCopyVal(f[k])]

\* main's in-place change to the keys of its argument (unshiftRule changes the
\* rules array, not the keys)
MutateFields(f, m) ==
    CASE m = "setMode" -> [f EXCEPT !.mode = Str("global")]
      [] m = "setPort" -> [f EXCEPT !.port = Num(70000)]
      [] OTHER -> f

\* what main raises on an argument with keys f, NoError if it returns:
\* config.rules.unshift(...) raises a TypeError unless rules is an array
MainError(r, f) ==
    IF r.mutate = "unshiftRule" /\ ~IsArray(f.rules)
    THEN RawError("TypeError", "script", FALSE, FALSE)
    ELSE IF r.throws # "none" THEN ThrownBy(r.throws) ELSE NoError

\* the test of line 285 in a variant that lets every script through
HasMainDeclarationAny(r) == TRUE

\* line 285: script.includes('function main')
HasMainDeclaration(r) == r.hasMainText

\* a checkTimeout that never throws
CheckTimeoutThrowsNever(elapsed) == FALSE

\* checkTimeout() after main returned (lines 300-304, 315)
CheckTimeoutThrows(elapsed) == elapsed > CheckTimeoutMs

\* line 331: !result || typeof result !== 'object'
InvalidReturn(v) == ~Truthy(v) \/ TypeOf(v) # "object"

\* lines 345-351: the friendly message chosen for a caught error
Classify(e) ==
    IF e.name = "SyntaxError" THEN "syntax"
    ELSE IF e.notDefined THEN "undefinedRef"
    ELSE IF e.notFunction THEN "notCallable"
    ELSE "generic"

\* how a call of executeScript ends: kind returned or threw; for a thrown error
\* its class, what raised it, the key it names, and whether it carries the
\* prefix of line 353
Outcome(kind, class, tag, detail, wrapped, v, f) ==
    [kind |-> kind, class |-> class, tag |-> tag, detail |-> detail, wrapped |-> wrapped,
     v |-> v, f |-> f]

NoOutcome == Outcome("none", "", "", "", FALSE, Undef, NoFields)

\* the catch block, lines 339-354: a thrown value without a message makes the
\* block itself raise a TypeError, which leaves executeScript as it is
CatchOutcome(e) ==
    IF e.name = "nonError"
    THEN Outcome("threw", "unclassified", "catchFailed", "", FALSE, Undef, NoFields)
    ELSE Outcome("threw", Classify(e), e.tag, e.detail, TRUE, Undef, NoFields)

\* the error validateConfig raises, naming the key err
ValidationError(err) == [InternalError("validation") EXCEPT !.detail = err]

\* what main returns for the argument arg whose keys are f after main's changes
MainResult(r, arg, f) ==
    IF r.ret.kind = "arg" THEN [v |-> arg, f |-> f] ELSE [v |-> r.ret.v, f |-> r.ret.f]

\* executeScript without strict validation of the result
executeScriptNoStrict(c, f, copyable, r, elapsed) ==
    IF ~validateConfig(c, f, FALSE).ok
    THEN Outcome("threw", "unclassified", "shape", "", FALSE, Undef, NoFields)
    ELSE IF ~copyable THEN CatchOutcome(RawError("TypeError", "circular", FALSE, FALSE))
    ELSE IF ~HasMainDeclaration(r) THEN CatchOutcome(InternalError("missingMainDecl"))
    ELSE IF ~r.syntaxOk THEN CatchOutcome(RawError("SyntaxError", "compile", FALSE, FALSE))
    ELSE IF ~r.mainDefined THEN CatchOutcome(InternalError("missingMainFn"))
    ELSE LET f1 == JSONCopyFields(f)
             res == MainResult(r, c, MutateFields(f1, r.mutate))
         IN  IF MainError(r, f1) # NoError THEN CatchOutcome(MainError(r, f1))
             ELSE IF CheckTimeoutThrows(elapsed) THEN CatchOutcome(InternalError("timeout"))
             ELSE IF InvalidReturn(res.v) THEN CatchOutcome(InternalError("invalidReturn"))
             ELSE Outcome("returned", "", "", "", FALSE, res.v, res.f)

\* executeScript(config, script, profileName) as a function of its inputs: the
\* value c with keys f, whether JSON.stringify accepts it, the routine r and the
\* time main takes.  The timer callback cannot run before clearTimeout (the call
\* is synchronous), so hasTimedOut is false at line 326.
executeScript(c, f, copyable, r, elapsed) ==
    IF ~validateConfig(c, f, FALSE).ok
    THEN Outcome("threw", "unclassified", "shape", "", FALSE, Undef, NoFields)
    ELSE IF ~copyable THEN CatchOutcome(RawError("TypeError", "circular", FALSE, FALSE))
    ELSE IF ~HasMainDeclaration(r) THEN CatchOutcome(InternalError("missingMainDecl"))
    ELSE IF ~r.syntaxOk THEN CatchOutcome(RawError("SyntaxError", "compile", FALSE, FALSE))
    ELSE IF ~r.mainDefined THEN CatchOutcome(InternalError("missingMainFn"))
    ELSE LET f1 == JSONCopyFields(f)
             res == MainResult(r, c, MutateFields(f1, r.mutate))
             strict == validateConfig(res.v, res.f, TRUE)
         IN  IF MainError(r, f1) # NoError THEN CatchOutcome(MainError(r, f1))
             ELSE IF CheckTimeoutThrows(elapsed) THEN CatchOutcome(InternalError("timeout"))
             ELSE IF InvalidReturn(res.v) THEN CatchOutcome(InternalError("invalidReturn"))
             ELSE IF ~strict.ok THEN CatchOutcome(ValidationError(strict.err))
             ELSE Outcome("returned", "", "", "", FALSE, res.v, res.f)

\* ------------------------------------------------------------------------
\* executeScript, step by step, on a heap
\* ------------------------------------------------------------------------
\* Addresses 1..3 hold the callers' manifests: object 1 with its rules array at
\* 2, and object 3, which refers to itself.  An invocation puts its copy at
\* ObjAddr and the copy of the rules array at ArrAddr; the callers write a
\* result out and drop it before the next call (server.js 252-265, batch.js
\* 87-104), so these cells are free again when the next invocation starts.
OrigAddrs == {1, 2, 3}
ObjAddr == 4
ArrAddr == 5
Addrs == OrigAddrs \cup {ObjAddr, ArrAddr}
Invocations == 1 .. MaxExec

Cell(kind, f, elems, circular) ==
    [kind |-> kind, f |-> f, elems |-> elems, circular |-> circular]

FreeCell == Cell("free", NoFields, <<>>, FALSE)

InitHeap(f) ==
    [a \in Addrs |->
        CASE a = 1 -> Cell("object", f, <<>>, FALSE)
          [] a = 2 -> Cell("array", NoFields, <<"A">>, FALSE)
          [] a = 3 -> Cell("object", NoFields, <<>>, TRUE)
          [] OTHER -> FreeCell]

\* values executeScript is called with
ConfigArgs == {Obj(1), Obj(3), Null, Undef, Str("x")}

\* the keys of a value: those of its heap object, or none
FieldsOf(h, v) == IF v.ty = "object" /\ v.ref # 0 THEN h[v.ref].f ELSE NoFields

\* JSON.stringify(config) throws on a structure that refers to itself
Copyable(h, v) == ~(v.ty = "object" /\ v.ref # 0 /\ h[v.ref].circular)

\* a copy that shares the nested rules array with the original
ShallowCopy(h, a) ==
    [h EXCEPT ![ObjAddr] = Cell("object", JSONCopyFields(h[a].f), <<>>, FALSE)]

\* line 282: JSON.parse(JSON.stringify(config)) of the object at a: a new
\* object, and a new array for its rules
DeepCopy(h, a) ==
    LET f == JSONCopyFields(h[a].f)
        nested == IsArray(f.rules) /\ f.rules.ref # 0
    IN  [h EXCEPT
            ![ObjAddr] =
                Cell("object", IF nested THEN [f EXCEPT !.rules = Arr(ArrAddr)] ELSE f,
                     <<>>, FALSE),
            ![ArrAddr] =
                IF nested THEN Cell("array", NoFields, h[f.rules.ref].elems, FALSE) ELSE @]

\* main(config, profileName) acting in place on the object at a
ApplyMain(h, a, r) ==
    LET f == h[a].f
        h1 == [h EXCEPT ![a].f = MutateFields(f, r.mutate)]
    IN  IF r.mutate = "unshiftRule" /\ IsArray(f.rules) /\ f.rules.ref # 0
        THEN [h1 EXCEPT ![f.rules.ref].elems = <<"B">> \o @]
        ELSE h1

ExIdle ==
    [pc |-> "idle", id |-> 0, config |-> Undef, script |-> Returning("none", "arg", Undef, NoFields),
     elapsed |-> 0, copy |-> Undef, compiled |-> FALSE, invoked |-> FALSE, returned |-> FALSE,
     result |-> [v |-> Undef, f |-> NoFields], error |-> NoError, outcome |-> NoOutcome]

\* a caller invokes executeScript(config, script, profileName)
ExCall ==
    /\ ex.pc \in {"idle", "done"}
    /\ exCount < MaxExec
    /\ \E c \in ConfigArgs, r \in Routines, e \in Elapsed :
          \* the time main takes matters only to a main that runs and returns
          /\ (e # 0 => r \in TimedRoutines)
          /\ ex' = [ExIdle EXCEPT !.pc = "validateInput", !.id = exCount + 1, !.config = c,
                                  !.script = r, !.elapsed = e]
    /\ exCount' = exCount + 1
    /\ heap' = [a \in Addrs |-> IF a \in OrigAddrs THEN heap[a] ELSE FreeCell]
    /\ UNCHANGED <<timers, hasTimedOut>>
    /\ UNCHANGED <<dlVars, vVars, btVars, cvVars>>

\* line 278: validateConfig(config), outside the try block
ExValidateInput ==
    /\ ex.pc = "validateInput"
    /\ IF validateConfig(ex.config, FieldsOf(heap, ex.config), FALSE).ok
       THEN ex' = [ex EXCEPT !.pc = "deepCopy"]
       ELSE ex' = [ex EXCEPT !.pc = "done",
                             !.outcome = Outcome("threw", "unclassified", "shape", "", FALSE,
                                                 Undef, NoFields)]
    /\ UNCHANGED <<heap, timers, hasTimedOut, exCount>>
    /\ UNCHANGED <<dlVars, vVars, btVars, cvVars>>

\* line 282
ExDeepCopy ==
    /\ ex.pc = "deepCopy"
    /\ IF Copyable(heap, ex.config)
       THEN /\ heap' = DeepCopy(heap, ex.config.ref)
            /\ ex' = [ex EXCEPT !.pc = "checkMain", !.copy = Obj(ObjAddr)]
       ELSE /\ heap' = heap
            /\ ex' = [ex EXCEPT !.pc = "catch",
                                !.error = RawError("TypeError", "circular", FALSE, FALSE)]
    /\ UNCHANGED <<timers, hasTimedOut, exCount>>
    /\ UNCHANGED <<dlVars, vVars, btVars, cvVars>>

\* lines 285-287
ExCheckMain ==
    /\ ex.pc = "checkMain"
    /\ IF HasMainDeclaration(ex.script)
       THEN ex' = [ex EXCEPT !.pc = "setTimer"]
       ELSE ex' = [ex EXCEPT !.pc = "catch", !.error = InternalError("missingMainDecl")]
    /\ UNCHANGED <<heap, timers, hasTimedOut, exCount>>
    /\ UNCHANGED <<dlVars, vVars, btVars, cvVars>>

\* lines 290-294
ExSetTimer ==
    /\ ex.pc = "setTimer"
    /\ timers' = [timers EXCEPT ![ex.id] = "pending"]
    /\ ex' = [ex EXCEPT !.pc = "compile"]
    /\ UNCHANGED <<heap, hasTimedOut, exCount>>
    /\ UNCHANGED <<dlVars, vVars, btVars, cvVars>>

\* lines 297-317: new Function(...)
ExCompile ==
    /\ ex.pc = "compile"
    /\ IF ex.script.syntaxOk
       THEN ex' = [ex EXCEPT !.pc = "run", !.compiled = TRUE]
       ELSE ex' = [ex EXCEPT !.pc = "catch", !.compiled = TRUE,
                             !.error = RawError("SyntaxError", "compile", FALSE, FALSE)]
    /\ UNCHANGED <<heap, timers, hasTimedOut, exCount>>
    /\ UNCHANGED <<dlVars, vVars, btVars, cvVars>>

\* line 320: scriptFunction(virtualConsole, configCopy, profileName), that is the
\* script body, the typeof main test, main(config, profileName) and checkTimeout()
ExRun ==
    /\ ex.pc = "run"
    /\ IF ~ex.script.mainDefined
       THEN /\ ex' = [ex EXCEPT !.pc = "catch", !.error = InternalError("missingMainFn")]
            /\ heap' = heap
       ELSE LET a == ex.copy.ref
                err == MainError(ex.script, heap[a].f)
                h1 == ApplyMain(heap, a, ex.script)
            IN  /\ heap' = h1
                /\ IF err # NoError
                   THEN ex' = [ex EXCEPT !.pc = "catch", !.invoked = TRUE, !.error = err]
                   ELSE IF CheckTimeoutThrows(ex.elapsed)
                   THEN ex' = [ex EXCEPT !.pc = "catch", !.invoked = TRUE, !.returned = TRUE,
                                         !.result = MainResult(ex.script, ex.copy, NoFields),
                                         !.error = InternalError("timeout")]
                   ELSE ex' = [ex EXCEPT !.pc = "clearTimer", !.invoked = TRUE,
                                         !.returned = TRUE,
                                         !.result = MainResult(ex.script, ex.copy, NoFields)]
    /\ UNCHANGED <<timers, hasTimedOut, exCount>>
    /\ UNCHANGED <<dlVars, vVars, btVars, cvVars>>

\* line 323
ExClearTimer ==
    /\ ex.pc = "clearTimer"
    /\ timers' = [timers EXCEPT ![ex.id] = "cleared"]
    /\ ex' = [ex EXCEPT !.pc = "checkTimedOut"]
    /\ UNCHANGED <<heap, hasTimedOut, exCount>>
    /\ UNCHANGED <<dlVars, vVars, btVars, cvVars>>

\* lines 326-328
ExCheckTimedOut ==
    /\ ex.pc = "checkTimedOut"
    /\ IF hasTimedOut[ex.id]
       THEN ex' = [ex EXCEPT !.pc = "catch", !.error = InternalError("timeout")]
       ELSE ex' = [ex EXCEPT !.pc = "checkResult"]
    /\ UNCHANGED <<heap, timers, hasTimedOut, exCount>>
    /\ UNCHANGED <<dlVars, vVars, btVars, cvVars>>

\* the keys of the result: those of the heap object it refers to, or its own
ResultFields(h, res) == IF res.v.ty = "object" /\ res.v.ref # 0 THEN h[res.v.ref].f ELSE res.f

\* lines 331-333
ExCheckResult ==
    /\ ex.pc = "checkResult"
    /\ IF InvalidReturn(ex.result.v)
       THEN ex' = [ex EXCEPT !.pc = "catch", !.error = InternalError("invalidReturn")]
       ELSE ex' = [ex EXCEPT !.pc = "validateResult"]
    /\ UNCHANGED <<heap, timers, hasTimedOut, exCount>>
    /\ UNCHANGED <<dlVars, vVars, btVars, cvVars>>

\* lines 336-338
ExValidateResult ==
    /\ ex.pc = "validateResult"
    /\ LET strict == validateConfig(ex.result.v, ResultFields(heap, ex.result), TRUE)
       IN  IF strict.ok
           THEN ex' = [ex EXCEPT !.pc = "done",
                                 !.outcome = Outcome("returned", "", "", "", FALSE, ex.result.v,
                                                     ResultFields(heap, ex.result))]
           ELSE ex' = [ex EXCEPT !.pc = "catch", !.error = ValidationError(strict.err)]
    /\ UNCHANGED <<heap, timers, hasTimedOut, exCount>>
    /\ UNCHANGED <<dlVars, vVars, btVars, cvVars>>

\* lines 339-354
ExCatch ==
    /\ ex.pc = "catch"
    /\ ex' = [ex EXCEPT !.pc = "done", !.outcome = CatchOutcome(ex.error)]
    /\ UNCHANGED <<heap, timers, hasTimedOut, exCount>>
    /\ UNCHANGED <<dlVars, vVars, btVars, cvVars>>

\* lines 292-294: the callback of a pending timer; it runs only between
\* synchronous calls
TimerFire ==
    /\ ex.pc \in {"idle", "done"}
    /\ \E i \in Invocations :
          /\ timers[i] = "pending"
          /\ timers' = [timers EXCEPT ![i] = "fired"]
          /\ hasTimedOut' = [hasTimedOut EXCEPT ![i] = TRUE]
    /\ UNCHANGED <<heap, ex, exCount>>
    /\ UNCHANGED <<dlVars, vVars, btVars, cvVars>>

\* ------------------------------------------------------------------------
\* batchProcess and batchProcessParallel (lib/batch.js 17-245)
\* ------------------------------------------------------------------------
\* the files glob.sync can match, and what reading and parsing each one gives
InputPaths == {"x/a.yaml", "x/c.yaml", "y/a.yaml", "x/b.yaml", "x/d.yaml"}

FileKind(p) ==
    CASE p = "x/b.yaml" -> "invalidYaml"
      [] p = "x/d.yaml" -> "unreadable"
      [] OTHER -> "manifest"

\* keys of the manifest yaml.load gives for a readable, well-formed file
FileFields(p) ==
    IF p = "x/c.yaml"
    THEN Fields(Arr(0), Arr(0), Undef, Num(7890), Undef, Undef, Str("rule"))
    ELSE Fields(Undef, Arr(0), Undef, Undef, Undef, Undef, Str("direct"))

\* path.basename(file)
Basename(p) ==
    CASE p \in {"x/a.yaml", "y/a.yaml"} -> "a.yaml"
      [] p = "x/b.yaml" -> "b.yaml"
      [] p = "x/c.yaml" -> "c.yaml"
      [] OTHER -> "d.yaml"

OutputDirs == {"", "out"}

\* lines 90-94 and 204-208
OutputPath(file, overwrite, outputDir) ==
    IF overwrite THEN file
    ELSE IF outputDir # "" THEN outputDir \o "/" \o Basename(file)
    ELSE file \o ".converted.yaml"

OutputPaths ==
    {OutputPath(p, o, d) : p \in InputPaths, o \in BOOLEAN, d \in OutputDirs}

\* the routines a batch is run with: one whose result passes strict validation
\* and one whose result fails it
BatchRoutines ==
    {Returning("setMode", "arg", Undef, NoFields), Returning("setPort", "arg", Undef, NoFields)}

\* Array.prototype.slice(start, end) on a sequence (indices from 0): a
\* negative index counts from the end, an index beyond an end is that end
Slice(seq, start, end) ==
    LET SliceIndex(k) == IF k < 0 THEN (IF Len(seq) + k < 0 THEN 0 ELSE Len(seq) + k)
                         ELSE IF k > Len(seq) THEN Len(seq) ELSE k
        from == SliceIndex(start)
        to == SliceIndex(end)
    IN  IF from >= to THEN <<>> ELSE SubSeq(seq, from + 1, to)

\* a group that takes one file more than it should
GroupSliceWide(files, i, concurrency) == Slice(files, i, i + concurrency + 1)

\* line 187: files.slice(i, i + concurrency)
GroupSlice(files, i, concurrency) == Slice(files, i, i + concurrency)

\* one run of the per-file pipeline (lines 71-107 and 192-217): the stage that
\* failed, or "ok", with the manifest that was written.  writeOk is the outcome of
\* fs.writeFileSync.
Pipeline(file, script, writeOk) ==
    IF FileKind(file) = "unreadable" THEN [stage |-> "read", v |-> Undef, f |-> NoFields]
    ELSE IF FileKind(file) = "invalidYaml" THEN [stage |-> "parse", v |-> Undef, f |-> NoFields]
    ELSE LET o == executeScript(Obj(0), FileFields(file), TRUE, script, 0)
         IN  IF o.kind # "returned" THEN [stage |-> "transform", v |-> Undef, f |-> NoFields]
             ELSE IF ~writeOk THEN [stage |-> "write", v |-> Undef, f |-> NoFields]
             ELSE [stage |-> "ok", v |-> o.v, f |-> o.f]

\* the outcome record of a run (lines 109-113, 118-122, 221-232)
FileResult(file, stage, overwrite, outputDir) ==
    IF stage = "ok"
    THEN [input |-> file, output |-> OutputPath(file, overwrite, outputDir), error |-> "",
          success |-> TRUE]
    ELSE [input |-> file, output |-> "", error |-> stage, success |-> FALSE]

\* results.push in a variant that records converted files only
PushOutcomeIfSuccess(results, r) == IF r.success THEN Append(results, r) ELSE results

\* results.push(...) of lines 109, 118 and 241
PushOutcome(results, r) == Append(results, r)

NoFile == [present |-> FALSE, src |-> "", v |-> Undef, f |-> NoFields]

\* fs.writeFileSync(outputPath, yamlStr) when the run got that far
WriteOutput(files, file, p, overwrite, outputDir) ==
    IF p.stage = "ok"
    THEN [files EXCEPT ![OutputPath(file, overwrite, outputDir)] =
              [present |-> TRUE, src |-> file, v |-> p.v, f |-> p.f]]
    ELSE files

BtOff ==
    [mode |-> "off", pc |-> "off", files |-> <<>>,
     script |-> Returning("none", "arg", Undef, NoFields), overwrite |-> FALSE,
     outputDir |-> "", concurrency |-> 1, i |-> 0, processedFiles |-> {}, results |-> <<>>,
     fileGroups |-> <<>>, odd |-> FALSE, g |-> 1, j |-> 1, groupResults |-> <<>>,
     running |-> FALSE,
     started |-> {}, settled |-> {}, collected |-> {}]

\* lines 27-58 and 152-182: the script is read, the files are matched (the list
\* is not empty here), the output directory is made
BatchStart ==
    /\ bt.pc = "start"
    /\ \E scriptReadable \in BOOLEAN :
          IF scriptReadable
          THEN bt' = [bt EXCEPT !.pc = IF bt.mode = "sequential" THEN "loop" ELSE "grouping"]
          ELSE IF bt.mode = "sequential"
          THEN bt' = [bt EXCEPT !.pc = "failedEarly",
                                !.results = <<[input |-> "", output |-> "", error |-> "script",
                                               success |-> FALSE]>>]
          ELSE bt' = [bt EXCEPT !.pc = "rejected"]
    /\ UNCHANGED <<outFiles, runLog>>
    /\ UNCHANGED <<dlVars, vVars, exVars, cvVars>>

\* batchProcess, lines 64-124: one iteration of the loop over files
BatchProcessFile ==
    /\ bt.mode = "sequential"
    /\ bt.pc = "loop"
    /\ bt.i < Len(bt.files)
    /\ LET file == bt.files[bt.i + 1]
       IN  IF file \in bt.processedFiles
           THEN /\ bt' = [bt EXCEPT !.i = @ + 1]
                /\ UNCHANGED <<outFiles, runLog>>
           ELSE \E writeOk \in BOOLEAN :
                   LET p == Pipeline(file, bt.script, writeOk)
                   IN  /\ (~writeOk => Pipeline(file, bt.script, TRUE).stage = "ok")
                       /\ bt' = [bt EXCEPT
                                    !.i = @ + 1,
                                    !.processedFiles = @ \cup {file},
                                    !.results =
                                        PushOutcome(@, FileResult(file, p.stage, bt.overwrite,
                                                                  bt.outputDir))]
                       /\ outFiles' = WriteOutput(outFiles, file, p, bt.overwrite, bt.outputDir)
                       /\ runLog' = Append(runLog, [file |-> file, stage |-> p.stage])
    /\ UNCHANGED <<dlVars, vVars, exVars, cvVars>>

\* batchProcess, line 126: return results
BatchReturn ==
    /\ bt.mode = "sequential"
    /\ bt.pc = "loop"
    /\ bt.i >= Len(bt.files)
    /\ bt' = [bt EXCEPT !.pc = "done"]
    /\ UNCHANGED <<outFiles, runLog>>
    /\ UNCHANGED <<dlVars, vVars, exVars, cvVars>>

\* batchProcessParallel, lines 185-188: one iteration of the grouping loop.  With
\* concurrency <= 0 the index never reaches files.length and the loop goes on:
\* the model keeps the first MaxGroups groups and the index they end at, and of
\* the iterations after them only whether their number is odd.
ParGroupStep ==
    /\ bt.pc = "grouping"
    /\ bt.i < Len(bt.files)
    /\ Len(bt.fileGroups) < MaxGroups \/ bt.concurrency <= 0
    /\ IF Len(bt.fileGroups) < MaxGroups
       THEN bt' = [bt EXCEPT
                      !.fileGroups = Append(@, GroupSlice(bt.files, bt.i, bt.concurrency)),
                      !.i = @ + bt.concurrency]
       ELSE bt' = [bt EXCEPT !.odd = ~@]
    /\ UNCHANGED <<outFiles, runLog>>
    /\ UNCHANGED <<dlVars, vVars, exVars, cvVars>>

\* the grouping loop ends
ParGroupsDone ==
    /\ bt.pc = "grouping"
    /\ bt.i >= Len(bt.files)
    /\ bt' = [bt EXCEPT !.pc = "groups", !.g = 1, !.j = 1, !.groupResults = <<>>]
    /\ UNCHANGED <<outFiles, runLog>>
    /\ UNCHANGED <<dlVars, vVars, exVars, cvVars>>

\* line 239, group.map(processFile): processFile is called for the next file of
\* the group; it has no await, so it runs to its end before the next call
ParStartFile ==
    /\ bt.pc = "groups"
    /\ bt.g <= Len(bt.fileGroups)
    /\ bt.j <= Len(bt.fileGroups[bt.g])
    /\ ~bt.running
    /\ bt' = [bt EXCEPT !.running = TRUE, !.started = @ \cup {<<bt.g, bt.j>>}]
    /\ UNCHANGED <<outFiles, runLog>>
    /\ UNCHANGED <<dlVars, vVars, exVars, cvVars>>

\* processFile, lines 191-234, runs to its return: its promise is settled
ParFinishFile ==
    /\ bt.pc = "groups"
    /\ bt.running
    /\ LET file == bt.fileGroups[bt.g][bt.j]
       IN  \E writeOk \in BOOLEAN :
              LET p == Pipeline(file, bt.script, writeOk)
              IN  /\ (~writeOk => Pipeline(file, bt.script, TRUE).stage = "ok")
                  /\ bt' = [bt EXCEPT
                               !.running = FALSE,
                               !.j = @ + 1,
                               !.settled = @ \cup {<<bt.g, bt.j>>},
                               !.groupResults =
                                   PushOutcome(@, FileResult(file, p.stage, bt.overwrite,
                                                             bt.outputDir))]
                  /\ outFiles' = WriteOutput(outFiles, file, p, bt.overwrite, bt.outputDir)
                  /\ runLog' = Append(runLog, [file |-> file, stage |-> p.stage])
    /\ UNCHANGED <<dlVars, vVars, exVars, cvVars>>

\* lines 240-241: await Promise.all(groupPromises); results.push(...groupResults)
ParAwaitGroup ==
    /\ bt.pc = "groups"
    /\ bt.g <= Len(bt.fileGroups)
    /\ bt.j > Len(bt.fileGroups[bt.g])
    /\ ~bt.running
    /\ bt' = [bt EXCEPT !.results = @ \o bt.groupResults,
                        !.collected = @ \cup {<<bt.g, k>> : k \in 1 .. Len(bt.fileGroups[bt.g])},
                        !.groupResults = <<>>,
                        !.g = @ + 1,
                        !.j = 1]
    /\ UNCHANGED <<outFiles, runLog>>
    /\ UNCHANGED <<dlVars, vVars, exVars, cvVars>>

\* line 244: return results
ParReturn ==
    /\ bt.pc = "groups"
    /\ bt.g > Len(bt.fileGroups)
    /\ bt' = [bt EXCEPT !.pc = "done"]
    /\ UNCHANGED <<outFiles, runLog>>
    /\ UNCHANGED <<dlVars, vVars, exVars, cvVars>>

\* ------------------------------------------------------------------------
\* processSubscription and the /convert handlers (server.js 219-280, 393-598)
\* ------------------------------------------------------------------------
Requests == 1 .. MaxReq

\* the GET handler (lines 393-495) and the POST handler (lines 498-598) differ
\* in where they read url, name and noCache from; a request stands for either

ProfileNames == {"", "p"}

\* line 221: profileName || 'config'
NameOrConfig(name) == IF name = "" THEN "config" ELSE name

\* lines 221-222: clash_<name>_<Date.now()>.yaml under the temporary directory
TempFilePath(name, now) == <<NameOrConfig(name), now>>

\* line 272
FileName(name) == IF name = "" THEN "config.yaml" ELSE name \o ".yaml"

\* the readings of Date.now(): a reading is the millisecond of the reading
\* before it or a later one, so MaxReq requests see at most MaxReq of them
Times == 1 .. MaxReq

Now(last) == {t \in {last, last + 1} : t \in Times}

TempPaths == {TempFilePath(n, t) : n \in ProfileNames, t \in Times}

NoTemp == [present |-> FALSE, owner |-> 0, v |-> Undef, f |-> NoFields]

\* what the live request of a conversion can give: a failure, a YAML mapping,
\* a body that is no mapping, or a body that is no YAML
ConvertLive ==
    {LiveFail, LiveOk(StrContent("yamlA"), "hA"), LiveOk(StrContent("scalar"), "hA"),
     LiveOk(StrContent("badYaml"), "hA")}

\* the manifest of the subscriptions that are YAML mappings
SubscriptionFields == Fields(Arr(0), Arr(0), Undef, Num(7890), Undef, Undef, Str("rule"))

\* a yaml.load whose result passes for a mapping whatever the text
YamlLoadLax(content) == [parsed |-> TRUE, ok |-> TRUE, v |-> Obj(0), f |-> SubscriptionFields]

\* lines 231-239: yaml.load(subscriptionContent) (parsed) and the object test
\* of line 234 (ok); yamlA is a block mapping, {flowYaml} a flow mapping, scalar
\* a document that is a scalar, badYaml a text yaml.load throws on; an object (a
\* JSON body parsed by axios) is turned into the text '[object Object]', which
\* is a YAML sequence
YamlLoad(content) ==
    IF content.t = "obj"
    THEN [parsed |-> TRUE, ok |-> TRUE, v |-> Arr(0), f |-> NoFields]
    ELSE IF content.v \in {"yamlA", "{flowYaml}"}
    THEN [parsed |-> TRUE, ok |-> TRUE, v |-> Obj(0), f |-> SubscriptionFields]
    ELSE [parsed |-> content.v # "badYaml", ok |-> FALSE, v |-> Undef, f |-> NoFields]

NoScript == Returning("none", "arg", Undef, NoFields)

\* a request: pc, the locals of processSubscription (name, path) and of the
\* handler (tempFilePath set or null, fileName, headers, cleaned), the events
\* seen, and a record of what was done for it (the text downloaded, steps, stage,
\* script, unlinks)
ReqNew ==
    [pc |-> "new", name |-> "", path |-> <<"config", 0>>, tempFilePath |-> FALSE,
     fileName |-> "", headers |-> EMPTYHDR, content |-> "", steps |-> <<>>,
     script |-> NoScript,
     stage |-> "", cleaned |-> FALSE, unlinks |-> 0, opened |-> FALSE, events |-> {}]

\* a request that is over: its locals are gone, the record is kept
ReqOver(q, pc) ==
    [ReqNew EXCEPT !.pc = pc, !.tempFilePath = q.tempFilePath, !.steps = q.steps,
                   !.content = q.content,
                   !.script = q.script, !.stage = q.stage, !.cleaned = q.cleaned,
                   !.unlinks = q.unlinks]

\* lines 396-416 / 501-519 and 221-227: the handler reads its parameters and
\* calls processSubscription, which fixes the temporary path from Date.now()
\* and starts the download
ConvertBegin(r) ==
    /\ req[r].pc = "new"
    /\ \E name \in ProfileNames, now \in Now(clock) :
          /\ req' = [req EXCEPT ![r] = [@ EXCEPT !.pc = "downloading", !.name = name,
                                                 !.path = TempFilePath(name, now)]]
          /\ clock' = now
    /\ UNCHANGED <<tempFiles, cacheBody, cacheHdr>>
    /\ UNCHANGED <<dlCall, dlCount, vVars, exVars, btVars>>

\* fs.unlinkSync(tempFilePath): it throws when there is no such file
UnlinkOk(files, path) == files[path].present

\* lines 466 / 569: !cleaned && tempFilePath
CleanupAllowed(q) == ~q.cleaned /\ q.tempFilePath

\* cleanupTemp (lines 465-475 / 568-578) of request r on the event ev
CleanupTemp(r, ev) ==
    LET unlinked == CleanupAllowed(req[r]) /\ UnlinkOk(tempFiles, req[r].path)
        q == IF unlinked
             THEN [req[r] EXCEPT !.cleaned = TRUE, !.unlinks = @ + 1, !.events = @ \cup {ev}]
             ELSE [req[r] EXCEPT !.events = @ \cup {ev}]
    IN  /\ tempFiles' = IF unlinked THEN [tempFiles EXCEPT ![req[r].path] = NoTemp]
                        ELSE tempFiles
        /\ req' = [req EXCEPT ![r] = IF ev = "close" THEN ReqOver(q, "closed") ELSE q]

\* processSubscription throws at a step (lines 227-269) and the handler's
\* catch block answers 500 (lines 482-494 / 585-597): tempFilePath is still null
ConvertFail(r, content, steps, script) ==
    /\ req' = [req EXCEPT ![r] = ReqOver([@ EXCEPT !.steps = steps, !.content = content,
                                                   !.stage = steps[Len(steps)],
                                                   !.script = script], "failed")]
    /\ tempFiles' = tempFiles

\* lines 257-279 and 418-480 / 521-583: the manifest (v, f) is written to the
\* temporary path, processSubscription returns, the handler sets the response
\* headers, pipes the file and registers cleanupTemp; when res.setHeader throws,
\* the catch block unlinks the file (lines 484-491 / 587-594)
ConvertServe(r, content, steps, script, v, f, headers, headerOk) ==
    IF headerOk
    THEN /\ req' = [req EXCEPT ![r] = [@ EXCEPT !.pc = "streaming", !.script = script,
                                               !.content = content,
                                               !.steps = steps, !.stage = "ok",
                                               !.tempFilePath = TRUE,
                                               !.fileName = FileName(req[r].name),
                                               !.headers = headers]]
         /\ tempFiles' = [tempFiles EXCEPT ![req[r].path] =
                             [present |-> TRUE, owner |-> r, v |-> v, f |-> f]]
    ELSE /\ req' = [req EXCEPT ![r] = ReqOver([@ EXCEPT !.steps = steps, !.stage = "respond",
                                                        !.content = content,
                                                        !.script = script,
                                                        !.tempFilePath = TRUE,
                                                        !.unlinks = @ + 1], "failed")]
         /\ tempFiles' = [tempFiles EXCEPT ![req[r].path] = NoTemp]

\* the download returns and processSubscription runs to its end (lines
\* 227-279): fetch, parse, object test, load of the routine, execution, write;
\* then the handler goes on.  There is no await after the download, so this is
\* one step.
ConvertResume(r) ==
    /\ req[r].pc = "downloading"
    /\ \E useCache \in BOOLEAN, live \in ConvertLive :
          LET d == downloadSubscription("u1", useCache, live, "ok", "ok", cacheBody, cacheHdr)
              text == d.ret.content.v
              y == YamlLoad(d.ret.content)
          IN  /\ cacheBody' = d.cb
              /\ cacheHdr' = d.ch
              /\ IF d.ret.kind = "error"
                 THEN ConvertFail(r, "", <<"fetch">>, NoScript)
                 ELSE IF ~y.parsed
                 THEN ConvertFail(r, text, <<"fetch", "parse">>, NoScript)
                 ELSE IF ~y.ok
                 THEN ConvertFail(r, text, <<"fetch", "parse", "validate">>, NoScript)
                 ELSE \E scriptReadable \in BOOLEAN :
                         IF ~scriptReadable
                         THEN ConvertFail(r, text, <<"fetch", "parse", "validate", "load">>,
                                          NoScript)
                         ELSE \E script \in BatchRoutines :
                                 LET o == executeScript(y.v, y.f, TRUE, script, 0)
                                 IN  IF o.kind # "returned"
                                     THEN ConvertFail(r, text,
                                                      <<"fetch", "parse", "validate", "load",
                                                        "execute">>, script)
                                     ELSE \E writeOk \in BOOLEAN, headerOk \in BOOLEAN :
                                             IF ~writeOk
                                             THEN /\ headerOk
                                                  /\ ConvertFail(r, text,
                                                                 <<"fetch", "parse", "validate",
                                                                   "load", "execute", "write">>,
                                                                 script)
                                             ELSE ConvertServe(r, text,
                                                               <<"fetch", "parse", "validate",
                                                                 "load", "execute", "write">>,
                                                               script, o.v, o.f, d.ret.headers,
                                                               headerOk)
    /\ UNCHANGED clock
    /\ UNCHANGED <<dlCall, dlCount, vVars, exVars, btVars>>

\* fs.createReadStream opens the file; when it is gone the stream emits 'error'
StreamOpen(r) ==
    /\ req[r].pc = "streaming"
    /\ ~req[r].opened
    /\ "error" \notin req[r].events
    /\ IF tempFiles[req[r].path].present
       THEN /\ req' = [req EXCEPT ![r] = [@ EXCEPT !.opened = TRUE]]
            /\ tempFiles' = tempFiles
       ELSE CleanupTemp(r, "error")
    /\ UNCHANGED <<clock, cacheBody, cacheHdr>>
    /\ UNCHANGED <<dlCall, dlCount, vVars, exVars, btVars>>

\* fileStream 'end' (lines 477 / 580)
StreamEnd(r) ==
    /\ req[r].pc = "streaming"
    /\ req[r].opened
    /\ req[r].events \cap {"end", "error"} = {}
    /\ CleanupTemp(r, "end")
    /\ UNCHANGED <<clock, cacheBody, cacheHdr>>
    /\ UNCHANGED <<dlCall, dlCount, vVars, exVars, btVars>>

\* fileStream 'error' while reading (lines 478 / 581)
StreamError(r) ==
    /\ req[r].pc = "streaming"
    /\ req[r].opened
    /\ req[r].events \cap {"end", "error"} = {}
    /\ CleanupTemp(r, "error")
    /\ UNCHANGED <<clock, cacheBody, cacheHdr>>
    /\ UNCHANGED <<dlCall, dlCount, vVars, exVars, btVars>>

\* res 'finish' (lines 479 / 582): the whole file was handed to the socket
ResFinish(r) ==
    /\ req[r].pc = "streaming"
    /\ "end" \in req[r].events
    /\ "finish" \notin req[r].events
    /\ CleanupTemp(r, "finish")
    /\ UNCHANGED <<clock, cacheBody, cacheHdr>>
    /\ UNCHANGED <<dlCall, dlCount, vVars, exVars, btVars>>

\* res 'close' (lines 480 / 583): after 'finish', or at any moment when the
\* client goes away
ResClose(r) ==
    /\ req[r].pc = "streaming"
    /\ CleanupTemp(r, "close")
    /\ UNCHANGED <<clock, cacheBody, cacheHdr>>
    /\ UNCHANGED <<dlCall, dlCount, vVars, exVars, btVars>>

\* ------------------------------------------------------------------------
\* Specifications
\* ------------------------------------------------------------------------
\* the parts of the service that a behaviour does not exercise stay as they
\* are before their first use
Idle(active) ==
    /\ IF active \in {"download", "convert"} THEN TRUE
       ELSE /\ cacheBody = [k \in Keys |-> ABSENT]
            /\ cacheHdr = [k \in Keys |-> ABSENT]
    /\ IF active = "download" THEN TRUE
       ELSE /\ dlCall = NoCall
            /\ dlCount = 0
    /\ IF active = "validate" THEN TRUE
       ELSE /\ vCfg = [c |-> Undef, f |-> NoFields]
            /\ vRes = NotValidated
    /\ IF active = "exec" THEN TRUE
       ELSE /\ heap = [a \in Addrs |-> FreeCell]
            /\ ex = [ExIdle EXCEPT !.pc = "off"]
            /\ timers = [i \in Invocations |-> "none"]
            /\ hasTimedOut = [i \in Invocations |-> FALSE]
            /\ exCount = 0
    /\ IF active = "batch" THEN TRUE
       ELSE /\ bt = BtOff
            /\ outFiles = [p \in OutputPaths |-> NoFile]
            /\ runLog = <<>>
    /\ IF active = "convert" THEN TRUE
       ELSE /\ req = [r \in Requests |-> [ReqNew EXCEPT !.pc = "off"]]
            /\ tempFiles = [p \in TempPaths |-> NoTemp]
            /\ clock = 0

\* downloadSubscription is called on a cache directory in any state earlier
\* runs can have left
InitDownload ==
    /\ cacheBody \in [Keys -> {ABSENT, "yamlA", "{flowYaml}"}]
    /\ cacheHdr \in [Keys -> {ABSENT, HeaderText("hA")}]
    /\ dlCall = NoCall
    /\ dlCount = 0
    /\ Idle("download")

SpecDownload == InitDownload /\ [][DownloadSubscription]_vars

\* validateConfig is called with a value
InitValidate ==
    /\ vCfg \in ValidateInputs
    /\ vRes = NotValidated
    /\ Idle("validate")

SpecValidate == InitValidate /\ [][ValidateConfig]_vars

\* executeScript is called, one call after the other, on the manifests of its
\* callers
InitExec ==
    /\ \E f \in {Fields(Arr(2), Arr(0), Undef, p, Undef, Undef, Str("rule")) :
                    p \in {Num(7890), NaN}}
                \cup {Fields(Undef, Undef, Undef, Undef, Undef, Undef, Str("direct"))} :
          heap = InitHeap(f)
    /\ ex = ExIdle
    /\ timers = [i \in Invocations |-> "none"]
    /\ hasTimedOut = [i \in Invocations |-> FALSE]
    /\ exCount = 0
    /\ Idle("exec")

NextExec ==
    \/ ExCall
    \/ ExValidateInput
    \/ ExDeepCopy
    \/ ExCheckMain
    \/ ExSetTimer
    \/ ExCompile
    \/ ExRun
    \/ ExClearTimer
    \/ ExCheckTimedOut
    \/ ExCheckResult
    \/ ExValidateResult
    \/ ExCatch
    \/ TimerFire

SpecExec == InitExec /\ [][NextExec]_vars

\* a batch runner is called with its options; the pattern matched the list
\* files (not empty)
InitBatch ==
    /\ \E mode \in {"sequential", "parallel"},
          files \in UNION {[1 .. n -> InputPaths] : n \in 1 .. MaxFiles},
          script \in BatchRoutines, overwrite \in BOOLEAN, outputDir \in OutputDirs,
          concurrency \in {-1, 0, 1, 2} :
          /\ (overwrite => outputDir = "")
          /\ (mode = "sequential" => concurrency = 1)
          /\ bt = [BtOff EXCEPT !.mode = mode, !.pc = "start", !.files = files,
                                !.script = script, !.overwrite = overwrite,
                                !.outputDir = outputDir, !.concurrency = concurrency]
    /\ outFiles = [p \in OutputPaths |-> NoFile]
    /\ runLog = <<>>
    /\ Idle("batch")

NextBatch ==
    \/ BatchStart
    \/ BatchProcessFile
    \/ BatchReturn
    \/ ParGroupStep
    \/ ParGroupsDone
    \/ ParStartFile
    \/ ParFinishFile
    \/ ParAwaitGroup
    \/ ParReturn

SpecBatch == InitBatch /\ [][NextBatch]_vars

\* a batch runner that has a step to take takes it: the loops of lines 64, 186
\* and 238 run on, and processFile has no await, so its promise is settled
SpecBatchFair == SpecBatch /\ WF_vars(NextBatch)

\* the server is up with an empty cache and no temporary file, and MaxReq
\* requests to /convert are to come
InitConvert ==
    /\ cacheBody = [k \in Keys |-> ABSENT]
    /\ cacheHdr = [k \in Keys |-> ABSENT]
    /\ req = [r \in Requests |-> ReqNew]
    /\ tempFiles = [p \in TempPaths |-> NoTemp]
    /\ clock = 0
    /\ Idle("convert")

NextConvert ==
    \E r \in Requests :
          \/ ConvertBegin(r)
          \/ ConvertResume(r)
          \/ StreamOpen(r)
          \/ StreamEnd(r)
          \/ StreamError(r)
          \/ ResFinish(r)
          \/ ResClose(r)

SpecConvert == InitConvert /\ [][NextConvert]_vars

\* the callers of executeScript that write its result out: the batch runners
\* and the /convert handlers; one of them is active in a behaviour
InitPipelines == InitBatch \/ InitConvert

NextPipelines == NextBatch \/ NextConvert

SpecPipelines == InitPipelines /\ [][NextPipelines]_vars

\* ========================================================================
\* Claims
\* ========================================================================

\* C1 (as stated): with useCache=false the cache is never read, and with
\* useCache=true cached content is returned if and only if the live request
\* failed and a cache body file exists for the URL's key.
C1_Original ==
    dlCall.ret.kind # "none" =>
        /\ (~dlCall.useCache => ~dlCall.ret.consulted)
        /\ (dlCall.useCache =>
               (dlCall.ret.kind = "cached" <=> (~dlCall.live.ok /\ dlCall.existed)))

\* C12 (as stated): when the live request fails and fallback is not allowed or no
\* cache body file exists, downloadSubscription fails with an error that carries
\* the source URL and the root cause of the failed request.
C12_Original ==
    (dlCall.ret.kind # "none" /\ ~dlCall.live.ok /\ (~dlCall.useCache \/ ~dlCall.existed)) =>
        /\ dlCall.ret.kind = "error"
        /\ dlCall.error.url = dlCall.url
        /\ dlCall.error.cause = dlCall.live.cause

\* C13 (as stated): after a fetch that succeeded and cached (body, metadata), a
\* fetch of the same source with fallback allowed whose live request fails
\* returns that body unchanged and that metadata, whatever the body was.
C13_Original ==
    [][(/\ dlCount' = dlCount + 1
        /\ dlCall.ret.kind = "live"
        /\ dlCall'.url = dlCall.url
        /\ dlCall'.useCache
        /\ ~dlCall'.live.ok) =>
           /\ dlCall'.ret.kind = "cached"
           /\ dlCall'.ret.content = dlCall.ret.content
           /\ dlCall'.ret.headers = dlCall.ret.headers]_vars

\* C15: the cache holds one body and one metadata file per key; a fetch that
\* returns the live response has overwritten the entry of the url's key with
\* the new body and metadata and left the other keys alone; and a file of the
\* cache that exists in a state exists in every later state.
C15_CacheEntries ==
    /\ [](DOMAIN cacheBody = Keys /\ DOMAIN cacheHdr = Keys)
    /\ [][\A k \in Keys :
             /\ cacheBody[k] # ABSENT => cacheBody'[k] # ABSENT
             /\ cacheHdr[k] # ABSENT => cacheHdr'[k] # ABSENT]_vars
    /\ [][(dlCount' = dlCount + 1 /\ dlCall'.ret.kind = "live") =>
             \A k \in Keys :
                IF k = CacheKey(dlCall'.url)
                THEN /\ cacheBody'[k] = CacheText(dlCall'.ret.content)
                     /\ cacheHdr'[k] = HeaderText(dlCall'.ret.headers)
                ELSE cacheBody'[k] = cacheBody[k] /\ cacheHdr'[k] = cacheHdr[k]]_vars

\* a fetch returned the live response and replaced a different body that the
\* cache held for the key, the entry of the other key being in place
C15_Witness ==
    /\ dlCall.ret.kind = "live"
    /\ dlCall.before \notin {ABSENT, CacheText(dlCall.ret.content)}
    /\ cacheBody[CacheKey(dlCall.url)] = CacheText(dlCall.ret.content)
    /\ cacheHdr[CacheKey(dlCall.url)] = HeaderText(dlCall.ret.headers)
    /\ \E k \in Keys : k # CacheKey(dlCall.url) /\ cacheBody[k] # ABSENT

\* C20 (as stated): a live response with status < 400 is what the call returns,
\* also when a write to the cache fails: the call neither fails nor returns
\* older cached content.
C20_Original ==
    (dlCall.ret.kind # "none" /\ dlCall.live.ok) =>
        /\ dlCall.ret.kind = "live"
        /\ dlCall.ret.content = dlCall.live.content
        /\ dlCall.ret.headers = dlCall.live.headers

\* v is an integer number
C8_IsInteger(v) == v.ty = "number" /\ ~v.nan /\ ~v.frac

\* a mapping offends the rules C8 states for strict validation
C8_Offending(f) ==
    \/ \E k \in {"rules", "proxies", "proxyGroups"} : f[k] # Undef /\ ~IsArray(f[k])
    \/ \E k \in {"port", "socksPort", "mixedPort"} :
          f[k] # Undef /\ ~(C8_IsInteger(f[k]) /\ f[k].n >= 0 /\ f[k].n <= MAXPORT)
    \/ f.mode # Undef /\ ~(f.mode.ty = "string" /\ f.mode.s \in Modes)

\* C8 (as stated): strict validation fails exactly for the mappings in which
\* rules, proxies or proxy-groups is present and not a sequence, or a port key is
\* present and not an integer in [0, 65535], or mode is present and not one of
\* rule, global, direct; an output with port 70000 fails naming port.
C8_Original ==
    (vRes.ran /\ vRes.isResult /\ vCfg.c.ty = "object") =>
        /\ vRes.ok <=> ~C8_Offending(vCfg.f)
        /\ (vCfg.f = [NoFields EXCEPT !.port = Num(70000)] => vRes.err = "port")

\* the step-by-step executeScript ends as the function executeScript says
ExecuteScriptAgrees ==
    ex.pc = "done" =>
        LET o == executeScript(ex.config, FieldsOf(heap, ex.config), Copyable(heap, ex.config),
                               ex.script, ex.elapsed)
        IN  /\ o.kind = ex.outcome.kind
            /\ o.class = ex.outcome.class
            /\ o.tag = ex.outcome.tag
            /\ o.detail = ex.outcome.detail
            /\ o.wrapped = ex.outcome.wrapped
            /\ o.v.ty = ex.outcome.v.ty
            /\ [k \in FieldNames |-> o.f[k].ty] = [k \in FieldNames |-> ex.outcome.f[k].ty]

\* C4: main is invoked on a deep copy: the copy and its rules array are no
\* object of a caller, and no step of executeScript, whether it ends in a return
\* or in a throw, changes an object or array of a caller's manifest, so every
\* invocation finds the manifest as the caller made it.
C4_DeepCopyIsolation ==
    /\ [](ex.invoked =>
             /\ ex.copy.ref \notin OrigAddrs
             /\ heap[ex.copy.ref].f.rules.ref \notin OrigAddrs)
    /\ [][\A a \in OrigAddrs : heap'[a] = heap[a]]_vars

\* a second invocation whose main changed the rules array it was given in place
\* and then threw, the caller's array being as before
C4_Witness ==
    /\ ex.pc = "done"
    /\ ex.id = 2
    /\ ex.config = Obj(1)
    /\ ex.invoked
    /\ ex.outcome.kind = "threw"
    /\ ex.script.mutate = "unshiftRule"
    /\ heap[ArrAddr].elems = <<"B", "A">>
    /\ heap[2].elems = <<"A">>

\* C9 (as stated): a script without the text of a main declaration makes
\* executeScript fail with the missing-entry-point error, and neither the
\* Function constructor nor main is ever reached.
C9_Original ==
    (ex.pc # "idle" /\ ~ex.script.hasMainText) =>
        /\ ~ex.compiled
        /\ ~ex.invoked
        /\ (ex.pc = "done" =>
               ex.outcome.kind = "threw" /\ ex.outcome.tag = "missingMainDecl")

\* C9 (amended): for a script without the text of a main declaration neither the
\* Function constructor nor main is ever reached; and when the manifest passes
\* the input validation of line 278 and JSON.stringify accepts it, executeScript
\* fails with the missing-entry-point error.
C9_MissingMainBeforeCompile ==
    (ex.pc # "idle" /\ ~ex.script.hasMainText) =>
        /\ ~ex.compiled
        /\ ~ex.invoked
        /\ ((/\ ex.pc = "done"
             /\ validateConfig(ex.config, FieldsOf(heap, ex.config), FALSE).ok
             /\ Copyable(heap, ex.config)) =>
               /\ ex.outcome.kind = "threw"
               /\ ex.outcome.tag = "missingMainDecl"
               /\ ex.outcome.wrapped)

\* a valid manifest and a script without main: the call ended with the
\* missing-entry-point error
C9_Witness ==
    /\ ex.pc = "done"
    /\ ex.config = Obj(1)
    /\ ~ex.script.hasMainText
    /\ ex.script.syntaxOk
    /\ ex.outcome.tag = "missingMainDecl"

\* C10 (as stated): whenever main returns a value that is no non-null mapping
\* (null, undefined, a number, a string, a boolean, a sequence), executeScript
\* fails with the invalid-return error and returns no result.
C10_Original ==
    (ex.pc = "done" /\ ex.returned /\ ex.result.v.ty # "object") =>
        ex.outcome.kind = "threw" /\ ex.outcome.tag = "invalidReturn"

\* C11: when main returns after more than timeoutMs (10 s) have passed,
\* executeScript fails with the timeout error, whatever main returned, and the
\* result of main is not returned to the caller.
C11_TimeoutAfterBudget ==
    (ex.pc = "done" /\ ex.returned /\ ex.elapsed > timeoutMs) =>
        /\ ex.outcome.kind = "threw"
        /\ ex.outcome.tag = "timeout"
        /\ ex.outcome.wrapped

\* main returned a mapping after more than 10 s and the call ended with the
\* timeout error
C11_Witness ==
    /\ ex.pc = "done"
    /\ ex.returned
    /\ ex.elapsed > timeoutMs
    /\ ex.result.v.ty = "object"
    /\ ex.outcome.kind = "threw"
    /\ ex.outcome.tag = "timeout"

\* the class C16 gives a raised error
C16_Class(e) ==
    CASE e.name = "SyntaxError" -> "syntax"
      [] e.name # "SyntaxError" /\ e.notDefined -> "undefinedRef"
      [] e.name # "SyntaxError" /\ ~e.notDefined /\ e.notFunction -> "notCallable"
      [] OTHER -> "generic"

\* C16 (as stated): every exception raised while the routine is compiled or
\* invoked surfaces as one error classified in the order syntax error,
\* undefined reference, not callable, generic; none escapes unclassified.
C16_Original ==
    (ex.pc = "done" /\ ex.error.tag \in {"compile", "script"}) =>
        /\ ex.outcome.kind = "threw"
        /\ ex.outcome.wrapped
        /\ ex.outcome.class = C16_Class(ex.error)

\* C17 (as stated): a call whose main returned is failed with the timeout
\* error exactly when the elapsed time exceeds timeoutMs (10000 ms).
C17_Original ==
    (ex.pc = "done" /\ ex.returned) =>
        (ex.outcome.tag = "timeout" <=> ex.elapsed > timeoutMs)

\* C18 (as stated): once an invocation of executeScript has returned or thrown,
\* the timer it started has been cleared: no timer of a finished invocation is
\* pending, and none fires later.
C18_Original ==
    \A i \in Invocations :
        (i < ex.id \/ (i = ex.id /\ ex.pc = "done")) => timers[i] \in {"none", "cleared"}

\* ------------------------------------------------------------------------
\* Batch runners
\* ------------------------------------------------------------------------
\* the files a finished batch has to account for: each matched path once, in
\* the order of its first match, in batchProcess; the matched list in
\* batchProcessParallel
RECURSIVE Dedup(_)
Dedup(files) ==
    IF files = <<>> THEN <<>>
    ELSE LET front == Dedup(SubSeq(files, 1, Len(files) - 1))
             last == files[Len(files)]
         IN  IF \E k \in 1 .. Len(front) : front[k] = last THEN front
             ELSE Append(front, last)

C5_Processed == IF bt.mode = "sequential" THEN Dedup(bt.files) ELSE bt.files

\* the outcomes recorded so far, those of the group being awaited included
C5_Recorded == bt.results \o bt.groupResults

\* C5: in both batch runners a failure while reading, parsing, transforming or
\* writing one file does not abort the batch: at every moment there is exactly
\* one recorded outcome per pipeline run, in the order of the runs, with
\* success=false and an error message when the run failed and success=true and
\* the output path, which then holds the written manifest, when it did not; and
\* the batch that returns has run the pipeline for every file it had to process.
C5_FailureIsolation ==
    bt.pc \in {"loop", "groups", "done"} =>
       /\ Len(C5_Recorded) = Len(runLog)
       /\ \A k \in 1 .. Len(runLog) :
             LET r == C5_Recorded[k]
             IN  /\ r.input = runLog[k].file
                 /\ r.input = C5_Processed[k]
                 /\ r.success <=> runLog[k].stage = "ok"
                 /\ r.success =>
                       /\ r.output = OutputPath(r.input, bt.overwrite, bt.outputDir)
                       /\ r.error = ""
                       /\ outFiles[r.output].present
                 /\ ~r.success => r.error # "" /\ r.output = ""
       /\ bt.pc = "done" =>
             /\ Len(bt.results) = Len(C5_Processed)
             /\ \A k \in 1 .. Len(bt.results) : bt.results[k].input = C5_Processed[k]

\* a finished batch of three files, run two at a time, in which a file that
\* failed is followed by files that were converted
C5_Witness ==
    /\ bt.pc = "done"
    /\ bt.mode = "parallel"
    /\ bt.concurrency = 2
    /\ Len(bt.results) = 3
    /\ ~bt.results[1].success
    /\ bt.results[1].error = "parse"
    /\ bt.results[2].success
    /\ bt.results[3].success

\* pipelines whose processFile was called and whose group is still awaited
C6_InFlight == bt.started \ bt.collected

C6_GroupCount ==
    (Len(bt.files) + bt.concurrency - 1) \div bt.concurrency

\* C6: in batchProcessParallel at most `concurrency` pipelines are in flight at
\* any moment, no pipeline of a group is started before every pipeline of the
\* groups before it has completed and been collected, and the groups are the
\* consecutive slices of `concurrency` files of the matched list.
C6_BoundedGroups ==
    bt.mode = "parallel" =>
       /\ C6_InFlight # {} => Cardinality(C6_InFlight) <= bt.concurrency
       /\ \A s \in bt.started :
             \A g \in 1 .. (s[1] - 1) :
                \A j \in 1 .. Len(bt.fileGroups[g]) :
                   <<g, j>> \in bt.settled /\ <<g, j>> \in bt.collected
       /\ bt.pc \in {"groups", "done"} /\ bt.concurrency >= 1 =>
             /\ Len(bt.fileGroups) = C6_GroupCount
             /\ \A g \in 1 .. Len(bt.fileGroups) :
                   /\ Len(bt.fileGroups[g]) <= bt.concurrency
                   /\ g < Len(bt.fileGroups) => Len(bt.fileGroups[g]) = bt.concurrency
                   /\ \A j \in 1 .. Len(bt.fileGroups[g]) :
                         bt.fileGroups[g][j] = bt.files[(g - 1) * bt.concurrency + j]

\* the first pipeline of the second group has been started, with two files
\* per group
C6_Witness ==
    /\ bt.mode = "parallel"
    /\ bt.concurrency = 2
    /\ Len(bt.files) = 3
    /\ bt.running
    /\ <<2, 1>> \in bt.started
    /\ Cardinality(bt.collected) = 2

\* C7 as stated: in both modes a path matched more than once is run once and
\* has one outcome in the results of the finished batch.
C7_Original ==
    bt.pc = "done" =>
       \A p \in {bt.files[k] : k \in 1 .. Len(bt.files)} :
          /\ Cardinality({k \in 1 .. Len(runLog) : runLog[k].file = p}) = 1
          /\ Cardinality({k \in 1 .. Len(bt.results) : bt.results[k].input = p}) = 1

\* C21 (as stated): batchProcessParallel terminates for every list of matched
\* files that is not empty and every value of concurrency, 0 and negative
\* numbers included: once the grouping loop is entered, it ends after finitely
\* many groups and the runner returns its results.
C21_Original == (bt.pc = "grouping") ~> (bt.pc = "done")

\* C22 (as stated): in a batch run distinct input files have distinct output
\* paths under every output policy, so that the output file of an input that is
\* reported as converted still holds the result of that input when the batch
\* has returned.
C22_Original ==
    bt.pc = "done" =>
       /\ \A k1, k2 \in 1 .. Len(bt.results) :
             (/\ bt.results[k1].success
              /\ bt.results[k2].success
              /\ bt.results[k1].input # bt.results[k2].input) =>
                bt.results[k1].output # bt.results[k2].output
       /\ \A k \in 1 .. Len(bt.results) :
             bt.results[k].success =>
                /\ outFiles[bt.results[k].output].present
                /\ outFiles[bt.results[k].output].src = bt.results[k].input

\* ------------------------------------------------------------------------
\* The /convert handlers and the output of the pipelines
\* ------------------------------------------------------------------------
\* C2 as stated: a request for which processSubscription wrote a temporary
\* file deletes it exactly once, whatever events end the transfer: no request
\* unlinks twice, and a request whose response is closed has unlinked once.
C2_Original ==
    \A r \in Requests :
       /\ req[r].unlinks <= 1
       /\ (req[r].pc = "closed" /\ req[r].tempFilePath) => req[r].unlinks = 1

\* the order of the steps of processSubscription that C14 states
C14_Order == <<"fetch", "parse", "validate", "load", "execute", "write">>

C14_IsPrefix(steps) ==
    /\ Len(steps) \in 1 .. Len(C14_Order)
    /\ \A k \in 1 .. Len(steps) : steps[k] = C14_Order[k]

\* C14: processSubscription runs fetch, parse, the object test, the load of the
\* routine, the execution and the write in this order, and the first step that
\* fails is the last one that runs: a text that is no YAML stops at the parse,
\* a document that is no mapping at the object test, a routine whose call
\* throws at the execution; a request stopped in this way hands no temporary
\* path, file name or metadata to the handler, unlinks nothing and ends with an
\* error, and one stopped before the write has written no temporary file.
C14_HardStop ==
    \A r \in Requests :
       req[r].pc \in {"failed", "streaming", "closed"} =>
          /\ C14_IsPrefix(req[r].steps)
          /\ IF req[r].stage \in {"ok", "respond"}
             THEN req[r].steps = C14_Order /\ req[r].tempFilePath
             ELSE /\ req[r].stage = req[r].steps[Len(req[r].steps)]
                  /\ req[r].pc = "failed"
                  /\ ~req[r].tempFilePath
                  /\ req[r].fileName = ""
                  /\ req[r].headers = EMPTYHDR
                  /\ req[r].unlinks = 0
                  /\ (req[r].stage # "write" => \A p \in TempPaths : tempFiles[p].owner # r)
          /\ (req[r].stage # "fetch" /\ req[r].content = "badYaml") => req[r].stage = "parse"
          /\ (req[r].stage # "fetch" /\ req[r].content = "scalar") => req[r].stage = "validate"
          /\ ("execute" \in {req[r].steps[k] : k \in 1 .. Len(req[r].steps)}
                /\ executeScript(Obj(0), SubscriptionFields, TRUE, req[r].script, 0).kind
                      # "returned") => req[r].stage = "execute"

\* one request stopped at the object test and another one at the execution
C14_Witness ==
    \E r1, r2 \in Requests :
       /\ req[r1].pc = "failed"
       /\ req[r1].content = "scalar"
       /\ req[r1].steps = <<"fetch", "parse", "validate">>
       /\ req[r2].pc = "failed"
       /\ req[r2].steps = <<"fetch", "parse", "validate", "load", "execute">>
       /\ \A p \in TempPaths : ~tempFiles[p].present

\* C19 (as stated): two /convert requests in progress at the same time never
\* have the same temporary path, also when they carry the same profile name, so
\* no request unlinks the file another request has still to stream.
C19_Original ==
    \A r1, r2 \in Requests :
       (/\ r1 # r2
        /\ req[r1].pc \in {"downloading", "streaming"}
        /\ req[r2].pc \in {"downloading", "streaming"}) =>
           /\ req[r1].path # req[r2].path
           /\ (req[r1].pc = "streaming" /\ ~req[r1].cleaned /\ ~req[r1].opened) =>
                 tempFiles[req[r1].path].present

\* what main returns to executeScript for a manifest with keys f
C3_Returned(f, script) ==
    MainResult(script, Obj(0), MutateFields(JSONCopyFields(f), script.mutate))

C3_StrictFails(f, script) ==
    LET res == C3_Returned(f, script)
    IN  ~InvalidReturn(res.v) /\ ~validateConfig(res.v, res.f, TRUE).ok

\* C3: a manifest returned by the routine that fails strict validation is
\* never surfaced: when validateConfig(result, true) fails, the executeScript
\* call of the pipeline throws, so that a batch run for such a result ends at
\* the transformation and leaves no output file for its input, and a /convert
\* request for such a result ends at the execution with no temporary file to
\* hand out; and every output file and temporary file that exists holds a
\* manifest that passes strict validation.
C3_NeverSurfaced ==
    /\ \A p \in OutputPaths :
          outFiles[p].present => validateConfig(outFiles[p].v, outFiles[p].f, TRUE).ok
    /\ \A k \in 1 .. Len(runLog) :
          (FileKind(runLog[k].file) = "manifest"
             /\ C3_StrictFails(FileFields(runLog[k].file), bt.script)) =>
              /\ runLog[k].stage = "transform"
              /\ \A p \in OutputPaths :
                    ~(outFiles[p].present /\ outFiles[p].src = runLog[k].file)
    /\ \A p \in TempPaths :
          tempFiles[p].present => validateConfig(tempFiles[p].v, tempFiles[p].f, TRUE).ok
    /\ \A r \in Requests :
          ("execute" \in {req[r].steps[k] : k \in 1 .. Len(req[r].steps)}
             /\ C3_StrictFails(SubscriptionFields, req[r].script)) =>
              /\ req[r].stage = "execute"
              /\ ~req[r].tempFilePath
              /\ \A p \in TempPaths : tempFiles[p].owner # r

\* a finished batch whose routine set port 70000 on a well-formed manifest: the
\* run failed at the transformation and no output file exists
C3_Witness ==
    /\ bt.pc = "done"
    /\ bt.script.mutate = "setPort"
    /\ \E k \in 1 .. Len(runLog) :
          /\ FileKind(runLog[k].file) = "manifest"
          /\ runLog[k].stage = "transform"
          /\ ~bt.results[k].success
    /\ \A p \in OutputPaths : ~outFiles[p].present

====
